---- MODULE Spec2Model ----
(***************************************************************************)
(* A state-machine model of the LingoFlow voice-translation component      *)
(* (src/App.tsx, src/types.ts): the React state and refs of App, the       *)
(* asynchronous startSession calls, the cloud session callbacks, the       *)
(* on-device recognition callbacks, audio scheduling and the persistence   *)
(* of the history in localStorage.                                         *)
(*                                                                         *)
(* A JavaScript string is a sequence of one-character strings.  The five   *)
(* accented letters of the dictionary are written "i_circ", "u_grave",     *)
(* "c_ced", "u_circ" and "e_acute"; each stands for one character.         *)
(* Date.now() (the id and timestamp of a history record) is read by no     *)
(* operation of the component and is left out of the records.              *)
(***************************************************************************)
EXTENDS Integers, Sequences, FiniteSets, TLC

(***************************************************************************)
(* src/types.ts                                                            *)
(***************************************************************************)
SUPPORTED_LANGUAGES ==
  << [code |-> "fr", name |-> "Francais",  voice |-> "Kore"],
     [code |-> "en", name |-> "English",   voice |-> "Puck"],
     [code |-> "es", name |-> "Espanol",   voice |-> "Kore"],
     [code |-> "de", name |-> "Deutsch",   voice |-> "Fenrir"],
     [code |-> "it", name |-> "Italiano",  voice |-> "Kore"],
     [code |-> "ja", name |-> "Nihongo",   voice |-> "Kore"],
     [code |-> "zh", name |-> "Zhongwen",  voice |-> "Puck"],
     [code |-> "th", name |-> "Thai",      voice |-> "Kore"],
     [code |-> "uk", name |-> "Ukrainien", voice |-> "Kore"],
     [code |-> "cs", name |-> "Tcheque",   voice |-> "Puck"],
     [code |-> "pl", name |-> "Polonais",  voice |-> "Fenrir"] >>

\* SUPPORTED_LANGUAGES.length
NumLanguages == Len(SUPPORTED_LANGUAGES)

\* SUPPORTED_LANGUAGES[i], with the array's indices 0 .. length-1
LanguageAt(i) == SUPPORTED_LANGUAGES[i + 1]

\* Array.prototype.indexOf: the first index holding the element, or -1
IndexOf(lang) ==
  IF \E i \in 0..(NumLanguages - 1) : LanguageAt(i) = lang
    THEN CHOOSE i \in 0..(NumLanguages - 1) :
           /\ LanguageAt(i) = lang
           /\ \A j \in 0..(i - 1) : LanguageAt(j) # lang
    ELSE -1

\* Cycling that stops at the last language instead of wrapping to the first.
NextLanguageNoWrap(lang) ==
  LanguageAt(IF IndexOf(lang) + 1 < NumLanguages THEN IndexOf(lang) + 1
                                                 ELSE IndexOf(lang))

\* SUPPORTED_LANGUAGES[(SUPPORTED_LANGUAGES.indexOf(lang) + 1) % SUPPORTED_LANGUAGES.length]
NextLanguage(lang) == LanguageAt((IndexOf(lang) + 1) % NumLanguages)

(***************************************************************************)
(* JavaScript strings and values                                           *)
(***************************************************************************)
UpperCase == <<"A", "B", "C", "D", "E", "F", "G", "H", "I", "J", "K", "L", "M",
               "N", "O", "P", "Q", "R", "S", "T", "U", "V", "W", "X", "Y", "Z",
               "I_circ", "U_grave", "C_ced", "U_circ", "E_acute">>
LowerCase == <<"a", "b", "c", "d", "e", "f", "g", "h", "i", "j", "k", "l", "m",
               "n", "o", "p", "q", "r", "s", "t", "u", "v", "w", "x", "y", "z",
               "i_circ", "u_grave", "c_ced", "u_circ", "e_acute">>

LowerChar(c) ==
  IF \E i \in 1..Len(UpperCase) : UpperCase[i] = c
    THEN LowerCase[CHOOSE i \in 1..Len(UpperCase) : UpperCase[i] = c]
    ELSE c

\* String.prototype.toLowerCase
ToLowerCase(s) == [i \in 1..Len(s) |-> LowerChar(s[i])]

WhiteSpace == {" ", "\t", "\n", "\r"}

RECURSIVE TrimStart(_)
TrimStart(s) ==
  IF s # <<>> /\ Head(s) \in WhiteSpace THEN TrimStart(Tail(s)) ELSE s

RECURSIVE TrimEnd(_)
TrimEnd(s) ==
  IF s # <<>> /\ s[Len(s)] \in WhiteSpace
    THEN TrimEnd(SubSeq(s, 1, Len(s) - 1))
    ELSE s

\* String.prototype.trim
Trim(s) == TrimEnd(TrimStart(s))

\* A JavaScript value: a string, or one of the non-string values a property
\* read can yield.
Str(s) == [kind |-> "string", chars |-> s]
Undefined == [kind |-> "undefined", chars |-> <<>>]
\* a built-in function (Object, Object.prototype.toString, ...)
BuiltinFunction == [kind |-> "function", chars |-> <<>>]
\* Object.prototype
ObjectPrototype == [kind |-> "object", chars |-> <<>>]

\* ToBoolean
Truthy(v) ==
  CASE v.kind = "undefined" -> FALSE
    [] v.kind = "string" -> v.chars # <<>>
    [] OTHER -> TRUE

(***************************************************************************)
(* OFFLINE_DICTIONARY (src/App.tsx)                                        *)
(***************************************************************************)

FrEnEntries ==
  << <<<<"b", "o", "n", "j", "o", "u", "r">>,
       <<"h", "e", "l", "l", "o">>>>,
     <<<<"m", "e", "r", "c", "i">>,
       <<"t", "h", "a", "n", "k", " ", "y", "o", "u">>>>,
     <<<<"s", "'", "i", "l", " ", "v", "o", "u", "s", " ", "p", "l", "a", "i_circ", "t">>,
       <<"p", "l", "e", "a", "s", "e">>>>,
     <<<<"o", "u_grave", " ", "e", "s", "t", " ", "l", "a", " ", "g", "a", "r", "e", " ", "?">>,
       <<"w", "h", "e", "r", "e", " ", "i", "s", " ", "t", "h", "e", " ", "s", "t", "a", "t", "i", "o", "n", "?">>>>,
     <<<<"j", "e", " ", "s", "u", "i", "s", " ", "p", "e", "r", "d", "u">>,
       <<"i", " ", "a", "m", " ", "l", "o", "s", "t">>>>,
     <<<<"c", "o", "m", "b", "i", "e", "n", " ", "c_ced", "a", " ", "c", "o", "u_circ", "t", "e", " ", "?">>,
       <<"h", "o", "w", " ", "m", "u", "c", "h", " ", "d", "o", "e", "s", " ", "i", "t", " ", "c", "o", "s", "t", "?">>>>,
     <<<<"s", "a", "n", "t", "e_acute", " ", "!">>,
       <<"c", "h", "e", "e", "r", "s", "!">>>>,
     <<<<"o", "u", "i">>,
       <<"y", "e", "s">>>>,
     <<<<"n", "o", "n">>,
       <<"n", "o">>>>,
     <<<<"p", "a", "r", "d", "o", "n">>,
       <<"e", "x", "c", "u", "s", "e", " ", "m", "e">>>> >>

EnFrEntries ==
  << <<<<"h", "e", "l", "l", "o">>,
       <<"b", "o", "n", "j", "o", "u", "r">>>>,
     <<<<"t", "h", "a", "n", "k", " ", "y", "o", "u">>,
       <<"m", "e", "r", "c", "i">>>>,
     <<<<"p", "l", "e", "a", "s", "e">>,
       <<"s", "'", "i", "l", " ", "v", "o", "u", "s", " ", "p", "l", "a", "i_circ", "t">>>>,
     <<<<"w", "h", "e", "r", "e", " ", "i", "s", " ", "t", "h", "e", " ", "s", "t", "a", "t", "i", "o", "n", "?">>,
       <<"o", "u_grave", " ", "e", "s", "t", " ", "l", "a", " ", "g", "a", "r", "e", " ", "?">>>>,
     <<<<"i", " ", "a", "m", " ", "l", "o", "s", "t">>,
       <<"j", "e", " ", "s", "u", "i", "s", " ", "p", "e", "r", "d", "u">>>>,
     <<<<"h", "o", "w", " ", "m", "u", "c", "h", " ", "d", "o", "e", "s", " ", "i", "t", " ", "c", "o", "s", "t", "?">>,
       <<"c", "o", "m", "b", "i", "e", "n", " ", "c_ced", "a", " ", "c", "o", "u_circ", "t", "e", " ", "?">>>>,
     <<<<"c", "h", "e", "e", "r", "s", "!">>,
       <<"s", "a", "n", "t", "e_acute", " ", "!">>>>,
     <<<<"y", "e", "s">>,
       <<"o", "u", "i">>>>,
     <<<<"n", "o">>,
       <<"n", "o", "n">>>>,
     <<<<"e", "x", "c", "u", "s", "e", " ", "m", "e">>,
       <<"p", "a", "r", "d", "o", "n">>>> >>

\* The properties every object literal inherits from Object.prototype.
ObjectPrototypeFunctions ==
  { <<"c", "o", "n", "s", "t", "r", "u", "c", "t", "o", "r">>,
    <<"t", "o", "S", "t", "r", "i", "n", "g">>,
    <<"v", "a", "l", "u", "e", "O", "f">>,
    <<"h", "a", "s", "O", "w", "n", "P", "r", "o", "p", "e", "r", "t", "y">>,
    <<"i", "s", "P", "r", "o", "t", "o", "t", "y", "p", "e", "O", "f">>,
    <<"p", "r", "o", "p", "e", "r", "t", "y", "I", "s", "E", "n", "u", "m", "e", "r", "a", "b", "l", "e">>,
    <<"t", "o", "L", "o", "c", "a", "l", "e", "S", "t", "r", "i", "n", "g">> }

ProtoKey == <<"_", "_", "p", "r", "o", "t", "o", "_", "_">>

OfflinePrefix == <<"[", "O", "f", "f", "l", "i", "n", "e", "]", " ", "\"">>
Quote == <<"\"">>
FunctionText == <<"function Object() { [native code] }">>
ObjectText == <<"[object Object]">>
T_bonjour == <<"b", "o", "n", "j", "o", "u", "r">>
T_Merci == <<" ", "M", "e", "r", "c", "i", " ">>
T_OUI == <<"O", "U", "I">>
T_No == <<"N", "o", "\t">>
T_Hello == <<"H", "e", "l", "l", "o">>
T_constructor == <<"c", "o", "n", "s", "t", "r", "u", "c", "t", "o", "r">>
T_Constructor == <<" ", "C", "o", "n", "s", "t", "r", "u", "c", "t", "o", "r">>
T_proto == <<"_", "_", "p", "r", "o", "t", "o", "_", "_">>
T_toString == <<"t", "o", "S", "t", "r", "i", "n", "g">>
T_taxi == <<"t", "a", "x", "i">>
T_bon == <<"b", "o", "n">>
T_jour == <<"j", "o", "u", "r">>

\* The own properties of the top-level object: one table per language pair.
\* A pair is the template string `${fromLang.code}-${toLang.code}`.
OFFLINE_DICTIONARY ==
  << << <<"fr", "-", "en">>, FrEnEntries >>,
     << <<"en", "-", "fr">>, EnFrEntries >> >>

\* obj[key] on an object literal whose own properties are `entries`
\* (a sequence of <<key, value>>): the own property when there is one,
\* otherwise what Object.prototype provides, otherwise undefined.
GetProperty(entries, key) ==
  IF \E i \in 1..Len(entries) : entries[i][1] = key
    THEN Str(entries[CHOOSE i \in 1..Len(entries) : entries[i][1] = key][2])
    ELSE IF key \in ObjectPrototypeFunctions THEN BuiltinFunction
    ELSE IF key = ProtoKey THEN ObjectPrototype
    ELSE Undefined

\* OFFLINE_DICTIONARY[pair]?.[normalizedText]
DictionaryLookup(pair, normalizedText) ==
  IF \E i \in 1..Len(OFFLINE_DICTIONARY) : OFFLINE_DICTIONARY[i][1] = pair
    THEN GetProperty(
           OFFLINE_DICTIONARY[CHOOSE i \in 1..Len(OFFLINE_DICTIONARY) :
                                OFFLINE_DICTIONARY[i][1] = pair][2],
           normalizedText)
    ELSE Undefined

\* The fallback template `[Offline] "${text}"`.
OfflineFallback(text) == Str(OfflinePrefix \o text \o Quote)

\* The value handleOfflineTranslate computes for `translated`.
OfflineTranslation(text, from, to) ==
  LET pair == <<from.code, "-", to.code>>
      normalizedText == Trim(ToLowerCase(text))
      translated == DictionaryLookup(pair, normalizedText)
  IN  IF ~Truthy(translated) THEN OfflineFallback(text) ELSE translated

\* String(v), as the + operator and SpeechSynthesisUtterance apply it
ToStringChars(v) ==
  CASE v.kind = "string" -> v.chars
    [] v.kind = "function" -> FunctionText
    [] v.kind = "undefined" -> <<"undefined">>
    [] OTHER -> ObjectText

(***************************************************************************)
(* History records and their JSON form                                     *)
(***************************************************************************)
\* TranslationRecord, without id and timestamp
NewRecord(originalText, translatedText, from, to) ==
  [originalText |-> Str(originalText), translatedText |-> translatedText,
   fromLang |-> Str(<<from>>), toLang |-> Str(<<to>>)]

RecordKeys == <<"originalText", "translatedText", "fromLang", "toLang">>

\* A plain object built by JSON.parse from "{}".
EmptyObject == [kind |-> "emptyobject", chars |-> <<>>]

\* JSON.stringify of one record: its members in property order; a member
\* whose value is a function or undefined is left out, a string is kept, and
\* Object.prototype (no enumerable own property) is written {}.
StringifyRecord(rec) ==
  LET all == [i \in 1..Len(RecordKeys) |-> <<RecordKeys[i], rec[RecordKeys[i]]>>]
      Kept(m) == m[2].kind \notin {"function", "undefined"}
      Enc(m) == <<m[1], IF m[2].kind = "string" THEN <<"s", m[2].chars>>
                                                ELSE <<"o", <<>> >> >>
      kept == SelectSeq(all, Kept)
  IN  [i \in 1..Len(kept) |-> Enc(kept[i])]

\* JSON.stringify(history)
Stringify(h) == [i \in 1..Len(h) |-> StringifyRecord(h[i])]

\* One record of JSON.parse: a property the text does not hold reads undefined.
ParseRecord(members) ==
  LET Field(k) ==
        IF \E i \in 1..Len(members) : members[i][1] = k
          THEN LET m == members[CHOOSE i \in 1..Len(members) : members[i][1] = k]
               IN  IF m[2][1] = "s" THEN Str(m[2][2]) ELSE EmptyObject
          ELSE Undefined
  IN  [originalText |-> Field("originalText"), translatedText |-> Field("translatedText"),
       fromLang |-> Field("fromLang"), toLang |-> Field("toLang")]

\* JSON.parse(saved)
Parse(json) == [i \in 1..Len(json) |-> ParseRecord(json[i])]

\* localStorage.getItem of a key that was never set
Null == [kind |-> "null", json |-> <<>>]
Stored(json) == [kind |-> "string", json |-> json]

\* [newRecord, ...h].slice(0, 50)
HISTORY_LIMIT == 50

\* A list that takes the new record at its end before it is cut to the limit.
PushRecordAtEnd(h, rec) ==
  LET all == h \o <<rec>>
  IN  SubSeq(all, 1, IF Len(all) < HISTORY_LIMIT THEN Len(all) ELSE HISTORY_LIMIT)

PushRecord(h, rec) ==
  LET all == <<rec>> \o h
  IN  SubSeq(all, 1, IF Len(all) < HISTORY_LIMIT THEN Len(all) ELSE HISTORY_LIMIT)

(***************************************************************************)
(* State                                                                   *)
(***************************************************************************)
VARIABLES
  \* useState
  fromLang, toLang, isListening, isOnline, manualOffline, history,
  currentTranscription,
  \* useRef; an audio context, a media stream and a session are named by the
  \* number of the startSession call that created them, a recognition by its
  \* number, 0 is null
  inputAudioCtxRef, outputAudioCtxRef, nextStartTimeRef, sourcesRef,
  sessionRef, mediaStreamRef, recognitionRef,
  \* the platform
  env,            \* process.env.API_KEY is set, SpeechRecognition exists
  localStorage,   \* the value under 'lingoflow_history'
  effects,        \* which useEffect bodies are still to run
  calls,          \* the startSession calls that went the cloud way
  recogs,         \* the SpeechRecognition objects created
  clock,          \* the audio hardware clock
  decoding,       \* onmessage handlers waiting at `await decodeAudioData`
  sources,        \* every AudioBufferSourceNode started, in start order
  utterances,     \* what was handed to speechSynthesis.speak
  \* observation only: counts of what happened
  msgCount, taps, gumCalls, connects, langTaps, closedSinceTap,
  persistedHistory

uiVars == <<fromLang, toLang, langTaps>>
netVars == <<isOnline, manualOffline, env>>
storeVars == <<localStorage, persistedHistory>>
audioVars == <<nextStartTimeRef, sourcesRef, sources, decoding>>
refVars == <<inputAudioCtxRef, outputAudioCtxRef, sessionRef, mediaStreamRef>>
countVars == <<taps, gumCalls, connects, closedSinceTap>>

vars == <<uiVars, netVars, storeVars, audioVars, refVars, countVars,
          isListening, history, currentTranscription, recognitionRef, effects,
          calls, recogs, clock, utterances, msgCount>>

\* useState({ user: '', model: '' })
EmptyTranscription == [user |-> <<>>, model |-> Str(<<>>)]

Max(a, b) == IF a > b THEN a ELSE b

\* const isActuallyOffline = !isOnline || manualOffline
IsActuallyOffline == ~isOnline \/ manualOffline

\* The first render has happened and its effects have run.
Mounted == ~effects.mount

\* audioCtx.currentTime of the output context created by call c: every context
\* counts from 0 at its creation and advances with the hardware clock.
CurrentTime(c) == clock - calls[c].epoch

\* The state after the first render of App.
Init ==
  /\ fromLang = LanguageAt(0)
  /\ toLang = LanguageAt(1)
  /\ isListening = FALSE
  /\ isOnline \in BOOLEAN
  /\ manualOffline = FALSE
  /\ history = <<>>
  /\ currentTranscription = EmptyTranscription
  /\ inputAudioCtxRef = 0
  /\ outputAudioCtxRef = 0
  /\ nextStartTimeRef = 0
  /\ sourcesRef = {}
  /\ sessionRef = 0
  /\ mediaStreamRef = 0
  /\ recognitionRef = 0
  /\ env \in [apiKey : BOOLEAN, recognition : BOOLEAN]
  /\ localStorage = Null
  /\ effects = [mount |-> TRUE, persist |-> TRUE]
  /\ calls = <<>>
  /\ recogs = <<>>
  /\ clock = 0
  /\ decoding = {}
  /\ sources = <<>>
  /\ utterances = <<>>
  /\ msgCount = 0
  /\ taps = 0
  /\ gumCalls = 0
  /\ connects = 0
  /\ langTaps = 0
  /\ closedSinceTap = FALSE
  /\ persistedHistory = <<>>

(***************************************************************************)
(* Effects: the mount effect and the persistence effect                    *)
(***************************************************************************)
\* The effects of the first render, run in order: the mount effect reads the
\* saved history and calls setHistory, then the persistence effect of that
\* render writes its own history, the empty list.
MountEffects ==
  /\ effects.mount
  /\ history' = IF localStorage.kind = "string" THEN Parse(localStorage.json)
                                                ELSE history
  /\ localStorage' = Stored(Stringify(history))
  /\ persistedHistory' = history
  /\ effects' = [mount |-> FALSE, persist |-> localStorage.kind = "string"]
  /\ UNCHANGED <<uiVars, netVars, audioVars, refVars, countVars, isListening,
                 currentTranscription, recognitionRef, calls, recogs, clock,
                 utterances, msgCount>>

\* localStorage.setItem('lingoflow_history', JSON.stringify(history)) after a
\* render with a new history.
PersistEffect ==
  /\ Mounted
  /\ effects.persist
  /\ localStorage' = Stored(Stringify(history))
  /\ persistedHistory' = history
  /\ effects' = [effects EXCEPT !.persist = FALSE]
  /\ UNCHANGED <<uiVars, netVars, audioVars, refVars, countVars, isListening,
                 history, currentTranscription, recognitionRef, calls, recogs,
                 clock, utterances, msgCount>>

\* The page is reloaded: the component and everything it started are gone,
\* localStorage stays, and App renders for the first time again.
Reload ==
  /\ fromLang' = LanguageAt(0)
  /\ toLang' = LanguageAt(1)
  /\ isListening' = FALSE
  /\ manualOffline' = FALSE
  /\ history' = <<>>
  /\ currentTranscription' = EmptyTranscription
  /\ inputAudioCtxRef' = 0
  /\ outputAudioCtxRef' = 0
  /\ nextStartTimeRef' = 0
  /\ sourcesRef' = {}
  /\ sessionRef' = 0
  /\ mediaStreamRef' = 0
  /\ recognitionRef' = 0
  /\ effects' = [mount |-> TRUE, persist |-> TRUE]
  /\ calls' = <<>>
  /\ recogs' = <<>>
  /\ decoding' = {}
  /\ sources' = <<>>
  /\ UNCHANGED <<isOnline, env, storeVars, countVars, langTaps, clock,
                 utterances, msgCount>>

(***************************************************************************)
(* stopAllAudio and stopSession                                            *)
(***************************************************************************)
\* source.stop() on every source of the set `refs`
StopSources(srcs, refs) ==
  [i \in 1..Len(srcs) |->
     IF i \in refs THEN [srcs[i] EXCEPT !.stopped = TRUE] ELSE srcs[i]]

\* stopAllAudio: every source of sourcesRef is stopped, the set is cleared
\* and nextStartTimeRef is reset.
StopAllAudio ==
  /\ sources' = StopSources(sources, sourcesRef)
  /\ sourcesRef' = {}
  /\ nextStartTimeRef' = 0

\* recognition.stop(): a recognition that is starting or listening stops and
\* may still deliver the result of what it heard.
RecognitionStop(rs, r) ==
  IF r # 0 /\ rs[r].state \in {"starting", "listening"}
    THEN [rs EXCEPT ![r].state = "stopping"]
    ELSE rs

\* track.stop() on the tracks of mediaStreamRef, close() on inputAudioCtxRef
StopCapture(cs) ==
  [k \in 1..Len(cs) |->
     [cs[k] EXCEPT !.streamLive = IF k = mediaStreamRef THEN FALSE ELSE @,
                   !.inCtxClosed = IF k = inputAudioCtxRef THEN TRUE ELSE @]]

\* A stopSession that clears the transcription whatever the render saw.
StopSessionClearing(offline, rs, ct) ==
  /\ recogs' = RecognitionStop(rs, recognitionRef)
  /\ recognitionRef' = 0
  /\ calls' = StopCapture(calls)
  /\ StopAllAudio
  /\ isListening' = FALSE
  /\ currentTranscription' = EmptyTranscription

\* stopSession as the closure of a render with isActuallyOffline = offline
\* runs it; rs and ct are the recognitions and the transcription as the
\* calling handler has left them.
StopSession(offline, rs, ct) ==
  /\ recogs' = RecognitionStop(rs, recognitionRef)
  /\ recognitionRef' = 0
  /\ calls' = StopCapture(calls)
  /\ StopAllAudio
  /\ isListening' = FALSE
  /\ currentTranscription' = IF ~offline THEN EmptyTranscription ELSE ct

(***************************************************************************)
(* The offline path                                                        *)
(***************************************************************************)
\* startOfflineListening: without SpeechRecognition an alert and nothing
\* else; otherwise a recognition is created with the handlers of this render
\* (its languages), stored in recognitionRef and started.
StartOfflineListening ==
  IF ~env.recognition
    THEN UNCHANGED <<recogs, recognitionRef>>
    ELSE /\ recogs' = Append(recogs, [state |-> "starting", from |-> fromLang,
                                      to |-> toLang, results |-> 0,
                                      final |-> FALSE])
         /\ recognitionRef' = Len(recogs) + 1

\* recognition.onstart
RecognitionOnStart(r) ==
  /\ Mounted
  /\ recogs[r].state = "starting"
  /\ recogs' = [recogs EXCEPT ![r].state = "listening"]
  /\ isListening' = TRUE
  /\ UNCHANGED <<uiVars, netVars, storeVars, audioVars, refVars, countVars,
                 history, currentTranscription, recognitionRef, effects, calls,
                 clock, utterances, msgCount>>

\* recognition.onresult with results[0].isFinal false: only the source text
\* changes.
RecognitionOnInterim(r, transcript) ==
  /\ Mounted
  /\ recogs[r].state = "listening"
  /\ recogs' = [recogs EXCEPT ![r].results = @ + 1]
  /\ currentTranscription' = [currentTranscription EXCEPT !.user = transcript]
  /\ UNCHANGED <<uiVars, netVars, storeVars, audioVars, refVars, countVars,
                 isListening, history, recognitionRef, effects, calls, clock,
                 utterances, msgCount>>

\* recognition.onresult with results[0].isFinal true: handleOfflineTranslate
\* (the translation is shown, spoken and recorded, with the languages of the
\* render that started the recognition), then stopSession of that render,
\* where isActuallyOffline was true.  continuous is false: the recognition
\* ends after its final result.
RecognitionOnFinal(r, transcript) ==
  /\ Mounted
  /\ recogs[r].state \in {"listening", "stopping"}
  /\ LET translated == OfflineTranslation(transcript, recogs[r].from, recogs[r].to)
     IN  /\ utterances' = Append(utterances,
                                 [text |-> ToStringChars(translated),
                                  lang |-> recogs[r].to.code])
         /\ history' = PushRecord(history,
                                  NewRecord(transcript, translated,
                                            recogs[r].from.code, recogs[r].to.code))
         /\ effects' = [effects EXCEPT !.persist = TRUE]
         /\ StopSession(TRUE, [recogs EXCEPT ![r].state = "ending",
                                              ![r].final = TRUE],
                        [user |-> transcript, model |-> translated])
  /\ UNCHANGED <<uiVars, netVars, storeVars, decoding, refVars, countVars,
                 clock, msgCount>>

\* recognition.onerror = () => stopSession(); the recognition then ends.
RecognitionOnError(r) ==
  /\ Mounted
  /\ recogs[r].state \in {"starting", "listening", "stopping"}
  /\ StopSession(TRUE, [recogs EXCEPT ![r].state = "ending"], currentTranscription)
  /\ UNCHANGED <<uiVars, netVars, storeVars, decoding, refVars, countVars,
                 history, effects, clock, utterances, msgCount>>

\* recognition.onend = () => setIsListening(false)
RecognitionOnEnd(r) ==
  /\ Mounted
  /\ recogs[r].state \in {"stopping", "ending"}
  /\ recogs' = [recogs EXCEPT ![r].state = "ended"]
  /\ isListening' = FALSE
  /\ UNCHANGED <<uiVars, netVars, storeVars, audioVars, refVars, countVars,
                 history, currentTranscription, recognitionRef, effects, calls,
                 clock, utterances, msgCount>>

(***************************************************************************)
(* startSession, the cloud path                                            *)
(***************************************************************************)
\* What a session has delivered as transcription: the fragments of its
\* inputTranscription and of its outputTranscription, concatenated.
NoFragments == [user |-> <<>>, model |-> <<>>]

\* startSession up to `await getUserMedia`: the two audio contexts are
\* created and the microphone is requested.
StartCloud ==
  /\ calls' = Append(calls,
       [pc |-> "gum", from |-> fromLang, to |-> toLang, epoch |-> clock,
        streamLive |-> FALSE, inCtxClosed |-> FALSE, procCtx |-> 0,
        wsOpen |-> FALSE, captured |-> 0, queued |-> <<>>, sent |-> <<>>,
        turn |-> NoFragments, lastTurn |-> NoFragments, turnsDone |-> 0])
  /\ inputAudioCtxRef' = Len(calls) + 1
  /\ outputAudioCtxRef' = Len(calls) + 1
  /\ gumCalls' = gumCalls + 1

\* startSession in a render where isActuallyOffline is `offline`.
StartSessionIn(offline) ==
  /\ taps' = taps + 1
  /\ closedSinceTap' = FALSE
  /\ IF offline
       THEN /\ StartOfflineListening
            /\ UNCHANGED <<calls, inputAudioCtxRef, outputAudioCtxRef, gumCalls>>
       ELSE IF ~env.apiKey
         THEN UNCHANGED <<recogs, recognitionRef, calls, inputAudioCtxRef,
                          outputAudioCtxRef, gumCalls>>
         ELSE /\ StartCloud
              /\ UNCHANGED <<recogs, recognitionRef>>
  /\ UNCHANGED <<uiVars, netVars, storeVars, audioVars, sessionRef,
                 mediaStreamRef, connects, isListening, history,
                 currentTranscription, effects, clock, utterances, msgCount>>

\* A startSession that looks at the browser's state only, not at the switch.
StartSessionBrowserOnly == StartSessionIn(~isOnline)

\* startSession as toggleTranslation calls it.
StartSession == StartSessionIn(IsActuallyOffline)

\* getUserMedia resolves: the stream is stored and ai.live.connect is called.
GumResolve(k) ==
  /\ Mounted
  /\ calls[k].pc = "gum"
  /\ calls' = [calls EXCEPT ![k].pc = "connecting", ![k].streamLive = TRUE]
  /\ mediaStreamRef' = k
  /\ connects' = connects + 1
  /\ UNCHANGED <<uiVars, netVars, storeVars, audioVars, inputAudioCtxRef,
                 outputAudioCtxRef, sessionRef, taps, gumCalls, closedSinceTap,
                 isListening, history, currentTranscription, recognitionRef,
                 effects, recogs, clock, utterances, msgCount>>

\* getUserMedia rejects: the catch block alerts.
GumReject(k) ==
  /\ Mounted
  /\ calls[k].pc = "gum"
  /\ calls' = [calls EXCEPT ![k].pc = "failed"]
  /\ UNCHANGED <<uiVars, netVars, storeVars, audioVars, refVars, countVars,
                 isListening, history, currentTranscription, recognitionRef,
                 effects, recogs, clock, utterances, msgCount>>

\* onopen: the script processor is created in the context inputAudioCtxRef
\* holds now and fed from the stream of this call.
OnOpen(k) ==
  /\ Mounted
  /\ calls[k].pc = "connecting"
  /\ calls' = [calls EXCEPT ![k].pc = "opened", ![k].wsOpen = TRUE,
                            ![k].procCtx = inputAudioCtxRef]
  /\ UNCHANGED <<uiVars, netVars, storeVars, audioVars, refVars, countVars,
                 isListening, history, currentTranscription, recognitionRef,
                 effects, recogs, clock, utterances, msgCount>>

\* The connect promise resolves: the continuation of `await sessionPromise`
\* runs first, then the then-callbacks the frames captured so far registered,
\* in registration order.
ConnectResolve(k) ==
  /\ Mounted
  /\ calls[k].pc = "opened"
  /\ calls' = [calls EXCEPT ![k].pc = "resolved",
                            ![k].sent = @ \o calls[k].queued,
                            ![k].queued = <<>>]
  /\ sessionRef' = k
  /\ isListening' = TRUE
  /\ UNCHANGED <<uiVars, netVars, storeVars, audioVars, inputAudioCtxRef,
                 outputAudioCtxRef, mediaStreamRef, countVars, history,
                 currentTranscription, recognitionRef, effects, recogs, clock,
                 utterances, msgCount>>

\* The connect promise rejects before the socket opened: the catch block
\* alerts.
ConnectReject(k) ==
  /\ Mounted
  /\ calls[k].pc = "connecting"
  /\ calls' = [calls EXCEPT ![k].pc = "failed"]
  /\ UNCHANGED <<uiVars, netVars, storeVars, audioVars, refVars, countVars,
                 isListening, history, currentTranscription, recognitionRef,
                 effects, recogs, clock, utterances, msgCount>>

\* onerror: (e) => console.error(...)
OnError(k) ==
  /\ Mounted
  /\ calls[k].wsOpen
  /\ closedSinceTap' = TRUE
  /\ UNCHANGED <<uiVars, netVars, storeVars, audioVars, refVars, taps, gumCalls,
                 connects, isListening, history, currentTranscription,
                 recognitionRef, effects, calls, recogs, clock, utterances,
                 msgCount>>

\* onclose: () => setIsListening(false)
OnClose(k) ==
  /\ Mounted
  /\ calls[k].wsOpen
  /\ calls' = [calls EXCEPT ![k].wsOpen = FALSE]
  /\ isListening' = FALSE
  /\ closedSinceTap' = TRUE
  /\ UNCHANGED <<uiVars, netVars, storeVars, audioVars, refVars, taps, gumCalls,
                 connects, history, currentTranscription, recognitionRef,
                 effects, recogs, clock, utterances, msgCount>>

\* The script processor of call k runs while the context it was created in
\* is not closed.
Capturing(k) ==
  /\ calls[k].pc \in {"opened", "resolved"}
  /\ calls[k].procCtx # 0
  /\ ~calls[calls[k].procCtx].inCtxClosed

\* An onaudioprocess that sends the frame to the session sessionRef holds,
\* if any, instead of the session of its own connect promise.
OnAudioProcessViaRef(k) ==
  /\ Mounted
  /\ Capturing(k)
  /\ LET frame == <<k, calls[k].captured + 1>>
         counted == [calls EXCEPT ![k].captured = @ + 1]
     IN  calls' = IF sessionRef # 0
                    THEN [counted EXCEPT ![sessionRef].sent = Append(@, frame)]
                    ELSE counted
  /\ UNCHANGED <<uiVars, netVars, storeVars, audioVars, refVars, countVars,
                 isListening, history, currentTranscription, recognitionRef,
                 effects, recogs, clock, utterances, msgCount>>

\* onaudioprocess: sessionPromise.then(session => session.sendRealtimeInput(..)):
\* on a resolved promise the callback runs at once, on a pending one it waits.
OnAudioProcess(k) ==
  /\ Mounted
  /\ Capturing(k)
  /\ LET frame == <<k, calls[k].captured + 1>>
     IN  calls' = [calls EXCEPT
           ![k].captured = @ + 1,
           ![k].sent = IF calls[k].pc = "resolved" THEN Append(@, frame) ELSE @,
           ![k].queued = IF calls[k].pc = "resolved" THEN @ ELSE Append(@, frame)]
  /\ UNCHANGED <<uiVars, netVars, storeVars, audioVars, refVars, countVars,
                 isListening, history, currentTranscription, recognitionRef,
                 effects, recogs, clock, utterances, msgCount>>

(***************************************************************************)
(* onmessage and the playback of the returned audio                        *)
(***************************************************************************)
\* A LiveServerMessage: input/output are the transcription texts (<<>> when
\* the message has none), audio is the duration of the chunk it carries
\* (0 when it has none).
Message(input, output, turnComplete, audio, interrupted) ==
  [input |-> input, output |-> output, turnComplete |-> turnComplete,
   audio |-> audio, interrupted |-> interrupted]

\* The transcription after the two setCurrentTranscription updates of lines
\* 210-217: prev.user + text, prev.model + text.
Transcribed(ct, m) ==
  [user |-> ct.user \o m.input,
   model |-> IF m.output = <<>> THEN ct.model
                                ELSE Str(ToStringChars(ct.model) \o m.output)]

\* The record of what session k has delivered, after message m: the
\* fragments of the turn in progress, and at a turnComplete the fragments of
\* the turn it ends.
Delivered(cs, k, m) ==
  LET acc == [user |-> cs[k].turn.user \o m.input,
              model |-> cs[k].turn.model \o m.output]
  IN  IF m.turnComplete
        THEN [cs EXCEPT ![k].turn = NoFragments, ![k].lastTurn = acc,
                        ![k].turnsDone = @ + 1]
        ELSE [cs EXCEPT ![k].turn = acc]

\* onmessage of call k up to its `await decodeAudioData`, or to its end when
\* the message carries no audio.
OnMessage(k, m) ==
  /\ Mounted
  /\ calls[k].wsOpen
  /\ msgCount' = msgCount + 1
  /\ calls' = Delivered(calls, k, m)
  /\ LET ct == Transcribed(currentTranscription, m)
         record == ct.user # <<>> /\ Truthy(ct.model)
     IN  IF m.turnComplete
           THEN /\ currentTranscription' = EmptyTranscription
                /\ history' = IF record
                                THEN PushRecord(history,
                                       NewRecord(ct.user, ct.model,
                                                 calls[k].from.code, calls[k].to.code))
                                ELSE history
                /\ effects' = [effects EXCEPT !.persist = @ \/ record]
           ELSE /\ currentTranscription' = ct
                /\ UNCHANGED <<history, effects>>
  /\ IF m.audio > 0 /\ outputAudioCtxRef # 0
       THEN /\ nextStartTimeRef' = Max(nextStartTimeRef, CurrentTime(outputAudioCtxRef))
            /\ decoding' = decoding \cup
                 {[chunk |-> msgCount + 1, call |-> k, ctx |-> outputAudioCtxRef,
                   dur |-> m.audio, interrupted |-> m.interrupted]}
            /\ UNCHANGED <<sources, sourcesRef>>
       ELSE IF m.interrupted
         THEN StopAllAudio /\ UNCHANGED decoding
         ELSE UNCHANGED audioVars
  /\ UNCHANGED <<uiVars, netVars, storeVars, refVars, countVars, isListening,
                 recognitionRef, recogs, clock, utterances>>

\* A handler that, for a message marked interrupted, stops the audio without
\* scheduling the chunk it has decoded.
DecodeDoneDroppingInterrupted(d) ==
  /\ Mounted
  /\ d \in decoding
  /\ decoding' = decoding \ {d}
  /\ IF d.interrupted
       THEN StopAllAudio
       ELSE /\ sources' = Append(sources,
                 [chunk |-> d.chunk, call |-> d.call, ctx |-> d.ctx,
                  start |-> nextStartTimeRef, at |-> CurrentTime(d.ctx),
                  dur |-> d.dur, stopped |-> FALSE])
            /\ sourcesRef' = sourcesRef \cup {Len(sources) + 1}
            /\ nextStartTimeRef' = nextStartTimeRef + d.dur
  /\ UNCHANGED <<uiVars, netVars, storeVars, refVars, countVars, isListening,
                 history, currentTranscription, recognitionRef, effects, calls,
                 recogs, clock, utterances, msgCount>>

\* decodeAudioData has resolved for the waiting handler d: the source is
\* created, started at nextStartTimeRef and added to sourcesRef; then, for a
\* message marked interrupted, stopAllAudio.
DecodeDone(d) ==
  /\ Mounted
  /\ d \in decoding
  /\ decoding' = decoding \ {d}
  /\ LET source == [chunk |-> d.chunk, call |-> d.call, ctx |-> d.ctx,
                    start |-> nextStartTimeRef, at |-> CurrentTime(d.ctx),
                    dur |-> d.dur, stopped |-> FALSE]
         started == Append(sources, source)
     IN  IF d.interrupted
           THEN /\ sources' = StopSources(started, sourcesRef \cup {Len(started)})
                /\ sourcesRef' = {}
                /\ nextStartTimeRef' = 0
           ELSE /\ sources' = started
                /\ sourcesRef' = sourcesRef \cup {Len(started)}
                /\ nextStartTimeRef' = nextStartTimeRef + d.dur
  /\ UNCHANGED <<uiVars, netVars, storeVars, refVars, countVars, isListening,
                 history, currentTranscription, recognitionRef, effects, calls,
                 recogs, clock, utterances, msgCount>>

\* When source i begins to sound and when it has played to its end: start(t)
\* with t in the past starts at once.
PlayStart(src) == Max(src.start, src.at)
PlayEnd(src) == PlayStart(src) + src.dur

\* source.onended = () => sourcesRef.current.delete(source)
OnEnded(i) ==
  /\ Mounted
  /\ i \in sourcesRef
  /\ CurrentTime(sources[i].ctx) >= PlayEnd(sources[i])
  /\ sourcesRef' = sourcesRef \ {i}
  /\ UNCHANGED <<uiVars, netVars, storeVars, nextStartTimeRef, sources, decoding,
                 refVars, countVars, isListening, history, currentTranscription,
                 recognitionRef, effects, calls, recogs, clock, utterances,
                 msgCount>>

\* The audio clock advances.
Tick ==
  /\ clock' = clock + 1
  /\ UNCHANGED <<uiVars, netVars, storeVars, audioVars, refVars, countVars,
                 isListening, history, currentTranscription, recognitionRef,
                 effects, calls, recogs, utterances, msgCount>>

(***************************************************************************)
(* The buttons and the browser's connectivity events                       *)
(***************************************************************************)
\* toggleTranslation
MicTap ==
  /\ Mounted
  /\ IF isListening
       THEN /\ StopSession(IsActuallyOffline, recogs, currentTranscription)
            /\ UNCHANGED <<uiVars, netVars, storeVars, decoding, refVars,
                           countVars, history, effects, clock, utterances,
                           msgCount>>
       ELSE StartSession

\* The Offline button: stopSession when listening, then the switch flips.
ToggleManualOffline ==
  /\ Mounted
  /\ manualOffline' = ~manualOffline
  /\ IF isListening
       THEN StopSession(IsActuallyOffline, recogs, currentTranscription)
       ELSE UNCHANGED <<recogs, recognitionRef, calls, sources, sourcesRef,
                        nextStartTimeRef, isListening, currentTranscription>>
  /\ UNCHANGED <<uiVars, isOnline, env, storeVars, decoding, refVars, countVars,
                 history, effects, clock, utterances, msgCount>>

\* window 'online' / 'offline': setIsOnline and nothing else
HandleOnline ==
  /\ Mounted
  /\ ~isOnline
  /\ isOnline' = TRUE
  /\ UNCHANGED <<uiVars, manualOffline, env, storeVars, audioVars, refVars,
                 countVars, isListening, history, currentTranscription,
                 recognitionRef, effects, calls, recogs, clock, utterances,
                 msgCount>>

HandleOffline ==
  /\ Mounted
  /\ isOnline
  /\ isOnline' = FALSE
  /\ UNCHANGED <<uiVars, manualOffline, env, storeVars, audioVars, refVars,
                 countVars, isListening, history, currentTranscription,
                 recognitionRef, effects, calls, recogs, clock, utterances,
                 msgCount>>

\* The source language button
TapFromLang ==
  /\ Mounted
  /\ langTaps' = langTaps + 1
  /\ fromLang' = IF ~isListening THEN NextLanguage(fromLang) ELSE fromLang
  /\ UNCHANGED <<toLang, netVars, storeVars, audioVars, refVars, countVars,
                 isListening, history, currentTranscription, recognitionRef,
                 effects, calls, recogs, clock, utterances, msgCount>>

\* The target language button
TapToLang ==
  /\ Mounted
  /\ langTaps' = langTaps + 1
  /\ toLang' = IF ~isListening THEN NextLanguage(toLang) ELSE toLang
  /\ UNCHANGED <<fromLang, netVars, storeVars, audioVars, refVars, countVars,
                 isListening, history, currentTranscription, recognitionRef,
                 effects, calls, recogs, clock, utterances, msgCount>>

(***************************************************************************)
(* Bounds and inputs of the checked specifications                         *)
(***************************************************************************)
MaxStarts == 2      \* mic taps that call startSession
MaxSoloStarts == 1  \* the same, where one session is followed
MaxLangTaps == 12   \* taps on a language button
MaxFrames == 2      \* frames captured per session
MaxMsgs == 3        \* messages delivered by the cloud sessions
MaxTime == 2        \* ticks of the audio clock
MaxDur == 2         \* longest audio chunk
MaxResults == 1     \* interim results per recognition

\* What a cloud session may send: a chunk of audio, marked interrupted or
\* not, or an interruption alone.
AudioMessages ==
  { Message(<<>>, <<>>, FALSE, d, x) : d \in 1..MaxDur, x \in BOOLEAN }
    \cup { Message(<<>>, <<>>, FALSE, 0, TRUE) }

\* The mic button, as often as the bound on startSession calls allows.
Mic == (isListening \/ taps < MaxStarts) /\ MicTap

\* The callbacks of the recognitions, hearing one of `texts`.
Recognition(texts) ==
  \E r \in 1..Len(recogs) :
    \/ RecognitionOnStart(r)
    \/ \E t \in texts :
         \/ recogs[r].results < MaxResults /\ RecognitionOnInterim(r, t)
         \/ RecognitionOnFinal(r, t)
    \/ RecognitionOnError(r)
    \/ RecognitionOnEnd(r)

\* The continuations of the startSession calls and the session callbacks.
Connection ==
  \E k \in 1..Len(calls) :
    \/ GumResolve(k)
    \/ GumReject(k)
    \/ OnOpen(k)
    \/ ConnectResolve(k)
    \/ ConnectReject(k)
    \/ OnError(k)
    \/ OnClose(k)

Capture ==
  \E k \in 1..Len(calls) : calls[k].captured < MaxFrames /\ OnAudioProcess(k)

(***************************************************************************)
(* Spec: starting and stopping sessions, online and offline                *)
(***************************************************************************)
Next ==
  \/ MountEffects
  \/ PersistEffect
  \/ Mic
  \/ ToggleManualOffline
  \/ HandleOnline
  \/ HandleOffline
  \/ Recognition({T_OUI})
  \/ Connection
  \/ Capture

Spec == Init /\ [][Next]_vars

(***************************************************************************)
(* SpecPlayback: a cloud session delivering audio                          *)
(***************************************************************************)
NextPlayback ==
  \/ MountEffects
  \/ (isListening \/ taps < MaxSoloStarts) /\ MicTap
  \/ \E k \in 1..Len(calls) :
       \/ GumResolve(k)
       \/ OnOpen(k)
       \/ ConnectResolve(k)
       \/ OnClose(k)
  \/ \E k \in 1..Len(calls), m \in AudioMessages :
       msgCount < MaxMsgs /\ OnMessage(k, m)
  \/ \E d \in decoding : DecodeDone(d)
  \/ \E i \in 1..Len(sources) : OnEnded(i)
  \/ clock < MaxTime /\ Tick

SpecPlayback == Init /\ [][NextPlayback]_vars

\* The same where every decodeAudioData promise that is awaited settles.
SpecPlaybackFair ==
  /\ SpecPlayback
  /\ WF_vars(MountEffects)
  /\ \A d \in [chunk : 1..MaxMsgs, call : 1..MaxSoloStarts,
                ctx : 1..MaxSoloStarts, dur : 1..MaxDur, interrupted : BOOLEAN] :
       WF_vars(DecodeDone(d))

(***************************************************************************)
(* SpecOffline: the on-device path for every pair of languages             *)
(***************************************************************************)
\* What a recognition may hear.
Transcripts ==
  { <<>>, T_bonjour, T_Merci, T_OUI, T_No, T_Hello, T_taxi, T_constructor,
    T_Constructor, T_proto, T_toString }

\* The language buttons have been tapped any number of times before.
InitOffline ==
  /\ fromLang \in {LanguageAt(i) : i \in 0..(NumLanguages - 1)}
  /\ toLang \in {LanguageAt(i) : i \in 0..(NumLanguages - 1)}
  /\ isListening = FALSE
  /\ isOnline \in BOOLEAN
  /\ manualOffline = FALSE
  /\ history = <<>>
  /\ currentTranscription = EmptyTranscription
  /\ inputAudioCtxRef = 0
  /\ outputAudioCtxRef = 0
  /\ nextStartTimeRef = 0
  /\ sourcesRef = {}
  /\ sessionRef = 0
  /\ mediaStreamRef = 0
  /\ recognitionRef = 0
  /\ env \in [apiKey : BOOLEAN, recognition : BOOLEAN]
  /\ localStorage = Null
  /\ effects = [mount |-> TRUE, persist |-> TRUE]
  /\ calls = <<>>
  /\ recogs = <<>>
  /\ clock = 0
  /\ decoding = {}
  /\ sources = <<>>
  /\ utterances = <<>>
  /\ msgCount = 0
  /\ taps = 0
  /\ gumCalls = 0
  /\ connects = 0
  /\ langTaps = 0
  /\ closedSinceTap = FALSE
  /\ persistedHistory = <<>>

NextOffline ==
  \/ MountEffects
  \/ (isListening \/ taps < MaxSoloStarts) /\ MicTap
  \/ ToggleManualOffline
  \/ Recognition(Transcripts)

SpecOffline == InitOffline /\ [][NextOffline]_vars

(***************************************************************************)
(* SpecLang: the language buttons                                          *)
(***************************************************************************)
NextLang ==
  \/ MountEffects
  \/ langTaps < MaxLangTaps /\ TapFromLang
  \/ langTaps < MaxLangTaps /\ TapToLang
  \/ (isListening \/ taps < MaxSoloStarts) /\ MicTap
  \/ \E r \in 1..Len(recogs) :
       \/ RecognitionOnStart(r)
       \/ RecognitionOnError(r)
       \/ RecognitionOnEnd(r)

SpecLang == Init /\ [][NextLang]_vars

(***************************************************************************)
(* SpecStore: the history across reloads                                   *)
(***************************************************************************)
NextStore ==
  \/ MountEffects
  \/ PersistEffect
  \/ Reload
  \/ Mic
  \/ \E r \in 1..Len(recogs) :
       \/ RecognitionOnStart(r)
       \/ \E t \in {T_OUI, T_constructor, T_proto} : RecognitionOnFinal(r, t)
       \/ RecognitionOnEnd(r)

SpecStore == Init /\ [][NextStore]_vars

(***************************************************************************)
(* SpecTurns: cloud sessions delivering transcriptions, after or between   *)
(* uses of the on-device path                                              *)
(***************************************************************************)
\* What a cloud session may send here: a fragment of the source text, of the
\* translation, or both, and the end of a turn.
TextMessages ==
  { Message(i, o, tc, 0, FALSE) :
      i \in {<<>>, T_bon}, o \in {<<>>, T_Hello}, tc \in BOOLEAN }
    \ { Message(<<>>, <<>>, FALSE, 0, FALSE) }

NextTurns ==
  \/ MountEffects
  \/ Mic
  \/ ToggleManualOffline
  \/ \E r \in 1..Len(recogs) :
       \/ RecognitionOnStart(r)
       \/ RecognitionOnFinal(r, T_OUI)
       \/ RecognitionOnEnd(r)
  \/ \E k \in 1..Len(calls) :
       \/ GumResolve(k)
       \/ OnOpen(k)
       \/ ConnectResolve(k)
  \/ \E k \in 1..Len(calls), m \in TextMessages :
       msgCount < MaxMsgs /\ OnMessage(k, m)

SpecTurns == Init /\ [][NextTurns]_vars

(***************************************************************************)
(* SpecHistory: records added to a history that earlier runs have filled   *)
(***************************************************************************)
\* Histories an earlier run of the app has left in localStorage: none, or
\* records of the on-device path, up to the limit or a few short of it.
StoredHistories ==
  { [i \in 1..n |->
       LET text == IF (i + p) % 2 = 0 THEN T_OUI ELSE T_No
       IN  NewRecord(text, OfflineTranslation(text, LanguageAt(0), LanguageAt(1)),
                     "fr", "en")] :
      n \in {0, HISTORY_LIMIT - 2, HISTORY_LIMIT - 1, HISTORY_LIMIT},
      p \in {0, 1} }

InitHistory ==
  /\ fromLang = LanguageAt(0)
  /\ toLang = LanguageAt(1)
  /\ isListening = FALSE
  /\ isOnline \in BOOLEAN
  /\ manualOffline = FALSE
  /\ history = <<>>
  /\ currentTranscription = EmptyTranscription
  /\ inputAudioCtxRef = 0
  /\ outputAudioCtxRef = 0
  /\ nextStartTimeRef = 0
  /\ sourcesRef = {}
  /\ sessionRef = 0
  /\ mediaStreamRef = 0
  /\ recognitionRef = 0
  /\ env = [apiKey |-> TRUE, recognition |-> TRUE]
  /\ localStorage \in {Null} \cup {Stored(Stringify(h)) : h \in StoredHistories}
  /\ effects = [mount |-> TRUE, persist |-> TRUE]
  /\ calls = <<>>
  /\ recogs = <<>>
  /\ clock = 0
  /\ decoding = {}
  /\ sources = <<>>
  /\ utterances = <<>>
  /\ msgCount = 0
  /\ taps = 0
  /\ gumCalls = 0
  /\ connects = 0
  /\ langTaps = 0
  /\ closedSinceTap = FALSE
  /\ persistedHistory = <<>>

NextHistory ==
  \/ MountEffects
  \/ PersistEffect
  \/ (isListening \/ taps < MaxSoloStarts) /\ MicTap
  \/ \E r \in 1..Len(recogs) :
       \/ RecognitionOnStart(r)
       \/ \E t \in {T_OUI, T_No} : RecognitionOnFinal(r, t)
       \/ RecognitionOnEnd(r)
  \/ \E k \in 1..Len(calls) :
       \/ GumResolve(k)
       \/ OnOpen(k)
       \/ ConnectResolve(k)
  \/ \E k \in 1..Len(calls), m \in TextMessages :
       msgCount < MaxMsgs /\ OnMessage(k, m)

SpecHistory == InitHistory /\ [][NextHistory]_vars

(***************************************************************************)
(* Claims                                                                  *)
(***************************************************************************)
\* C1. A start while the app is offline takes the on-device path only: the
\* tap requests no microphone stream, makes no connect call, touches no
\* cloud call (so no frame is sent) and, where SpeechRecognition exists,
\* starts one recognition.  A start while the app is online starts no
\* recognition and, with an API key, requests the microphone for a new cloud
\* call.
C1_OfflineStartStaysOnDevice ==
  [][taps' # taps =>
       IF IsActuallyOffline
         THEN /\ gumCalls' = gumCalls
              /\ connects' = connects
              /\ calls' = calls
              /\ env.recognition =>
                   /\ Len(recogs') = Len(recogs) + 1
                   /\ recogs'[Len(recogs')].state = "starting"
                   /\ recognitionRef' = Len(recogs')
         ELSE /\ recogs' = recogs
              /\ recognitionRef' = recognitionRef
              /\ env.apiKey =>
                   /\ gumCalls' = gumCalls + 1
                   /\ Len(calls') = Len(calls) + 1
                   /\ calls'[Len(calls')].pc = "gum"]_vars

\* An offline start has happened next to a cloud call of an earlier tap: the
\* recognition exists and the microphone was requested once, not twice.
C1_Witness ==
  /\ taps = 2
  /\ IsActuallyOffline
  /\ Len(recogs) = 1
  /\ recogs[1].state = "starting"
  /\ Len(calls) = 1
  /\ gumCalls = 1

\* C5. An interim result changes the displayed source text and nothing else
\* of what is shown, spoken, recorded or listened to.  A final result of a
\* recognition, hearing t, has in one handler: the translation of t for the
\* languages of that recognition spoken once in the target language, one
\* record of t and that translation put first in the history, isListening
\* false, and t and the translation left on display.
C5_FinalResultSpeaksRecordsStops ==
  [][\A r \in 1..Len(recogs) :
       Len(recogs') = Len(recogs) =>
         /\ recogs'[r].results # recogs[r].results =>
              /\ history' = history
              /\ utterances' = utterances
              /\ isListening' = isListening
              /\ currentTranscription'.model = currentTranscription.model
         /\ (~recogs[r].final /\ recogs'[r].final) =>
              LET t == currentTranscription'.user
                  translated == OfflineTranslation(t, recogs[r].from, recogs[r].to)
              IN  /\ utterances' = Append(utterances,
                                          [text |-> ToStringChars(translated),
                                           lang |-> recogs[r].to.code])
                  /\ history' = <<NewRecord(t, translated, recogs[r].from.code,
                                            recogs[r].to.code)>> \o history
                  /\ ~isListening'
                  /\ currentTranscription'.model = translated
                  /\ recogs'[r].state = "ending"]_vars

\* A final result has been handled after an interim one: one utterance, one
\* record, listening over, both texts on display.
C5_Witness ==
  /\ Len(recogs) >= 1
  /\ recogs[1].final
  /\ recogs[1].results = 1
  /\ Len(utterances) = 1
  /\ Len(history) = 1
  /\ ~isListening
  /\ currentTranscription.user = T_OUI
  /\ currentTranscription.model = Str(<<"y", "e", "s">>)

\* C6. For every cloud call, the frames handed to sendRealtimeInput followed
\* by those still waiting for the connect promise are exactly the frames its
\* onaudioprocess received, each once, in capture order and none of another
\* call; nothing waits once the promise has resolved and nothing is sent
\* before.
C6_FramesForwardedOnceInOrder ==
  \A k \in 1..Len(calls) :
    /\ calls[k].sent \o calls[k].queued = [n \in 1..calls[k].captured |-> <<k, n>>]
    /\ calls[k].pc = "resolved" => calls[k].queued = <<>>
    /\ calls[k].pc # "resolved" => calls[k].sent = <<>>

\* Two calls have resolved and each has forwarded two frames.
C6_Witness ==
  /\ Len(calls) = 2
  /\ \A k \in 1..2 : calls[k].pc = "resolved" /\ Len(calls[k].sent) = 2

\* Call k is a cloud session that listens: its socket is open, its connect
\* promise resolved, its microphone stream live and its script processor
\* running.
CloudListening(k) ==
  /\ calls[k].pc = "resolved"
  /\ calls[k].wsOpen
  /\ calls[k].streamLive
  /\ Capturing(k)

\* C7. Whenever the browser reports offline or the manual switch is on, no
\* cloud session is listening and streaming microphone audio.
C7_NoCloudListeningWhileOffline ==
  IsActuallyOffline => \A k \in 1..Len(calls) : ~CloudListening(k)

\* C8. A close sets isListening false; once a session has closed or reported
\* an error no connect call is made before the next mic tap that starts a
\* session; there are never more connect calls than such taps.
C8_NoConnectWithoutNewTap ==
  [][/\ closedSinceTap => connects' = connects
     /\ connects' <= taps'
     /\ (\E k \in 1..Len(calls) : calls[k].wsOpen /\ ~calls'[k].wsOpen)
          => ~isListening']_vars

\* C2. Of two chunks of one session, the one whose message arrived first is
\* not scheduled to start later than the other.
C2_ScheduledInArrivalOrder ==
  \A i, j \in 1..Len(sources) :
    (sources[i].call = sources[j].call /\ sources[i].chunk < sources[j].chunk)
      => sources[i].start <= sources[j].start

\* C3. A chunk is started no earlier than the audio clock's time at that
\* moment and no earlier than the end of every chunk started before it in
\* the same context and not stopped: the playback intervals do not overlap.
C3_PlaybackNeverOverlaps ==
  \A j \in 1..Len(sources) :
    /\ sources[j].start >= sources[j].at
    /\ \A i \in 1..(j - 1) :
         (sources[i].ctx = sources[j].ctx /\ ~sources[i].stopped)
           => sources[j].start >= sources[i].start + sources[i].dur

\* What C4 says handleOfflineTranslate yields: the entry of the pair's table
\* under lowercase(trim(text)) when the pair has a table and that text is one
\* of its keys, otherwise the fallback string built from the text as given.
ClaimedTranslation(text, fromCode, toCode) ==
  LET pair == <<fromCode, "-", toCode>>
      key == ToLowerCase(Trim(text))
      Tables == {i \in 1..Len(OFFLINE_DICTIONARY) : OFFLINE_DICTIONARY[i][1] = pair}
      Entries(i) == {e \in 1..Len(OFFLINE_DICTIONARY[i][2]) :
                       OFFLINE_DICTIONARY[i][2][e][1] = key}
  IN  IF \E i \in Tables : Entries(i) # {}
        THEN LET i == CHOOSE i \in Tables : Entries(i) # {}
             IN  Str(OFFLINE_DICTIONARY[i][2][CHOOSE e \in Entries(i) : TRUE][2])
        ELSE Str(OfflinePrefix \o text \o Quote)

\* C4. Every record of the history holds, as its translation, the dictionary
\* entry or the fallback string for its text and languages, and the
\* translation on display after a final result is that of the newest record.
C4_TranslationIsEntryOrFallback ==
  /\ \A i \in 1..Len(history) :
       history[i].translatedText =
         ClaimedTranslation(history[i].originalText.chars,
                            history[i].fromLang.chars[1], history[i].toLang.chars[1])
  /\ (history # <<>> /\ currentTranscription.model # Str(<<>>))
       => currentTranscription.model = history[1].translatedText

\* C9. Once the persistence effect has run for the current history the
\* stored value is its serialisation, and the history the mount effects
\* restore is the history that was persisted before the reload.
C9_HistorySurvivesReload ==
  [][/\ (Mounted' /\ ~effects'.persist)
          => localStorage' = Stored(Stringify(history'))
     /\ (effects.mount /\ ~effects'.mount) => history' = persistedHistory]_vars

\* C10. A tap on a language button while not listening moves that language
\* to the next entry of SUPPORTED_LANGUAGES, the last wrapping to the first,
\* and leaves the other language alone; a tap while listening changes
\* neither; from every language reached, as many taps as there are languages
\* lead back to it.
RECURSIVE Taps(_, _)
Taps(n, lang) == IF n = 0 THEN lang ELSE Taps(n - 1, NextLanguage(lang))

C10_LanguageCycles ==
  /\ [][langTaps' # langTaps =>
          IF isListening
            THEN fromLang' = fromLang /\ toLang' = toLang
            ELSE \/ /\ IndexOf(fromLang') = (IndexOf(fromLang) + 1) % 11
                    /\ toLang' = toLang
                 \/ /\ IndexOf(toLang') = (IndexOf(toLang) + 1) % 11
                    /\ fromLang' = fromLang]_vars
  /\ [](/\ IndexOf(fromLang) \in 0..10
        /\ IndexOf(toLang) \in 0..10
        /\ Taps(11, fromLang) = fromLang
        /\ Taps(11, toLang) = toLang)

\* Eleven taps on the source language button, none of them while listening,
\* have led from the first language through the last back to the first.
C10_Witness ==
  /\ langTaps = 11
  /\ calls = <<>>
  /\ recogs = <<>>
  /\ fromLang = LanguageAt(0)
  /\ toLang = LanguageAt(1)

\* A tap while listening has left both languages as they were.
C10_WitnessListening ==
  /\ langTaps = 1
  /\ isListening
  /\ fromLang = LanguageAt(0)
  /\ toLang = LanguageAt(1)

\* C11. Every chunk whose handler awaits its decode gets a source in the end;
\* no chunk ever has more than one source, and none while its decode is
\* pending; the step that creates the source starts it and, unless the
\* chunk's own message is marked interrupted, leaves it in sourcesRef.
SourcesOf(c) == {i \in 1..Len(sources) : sources[i].chunk = c}

C11_EveryChunkScheduledOnce ==
  /\ \A c \in 1..MaxMsgs :
       (\E d \in decoding : d.chunk = c) ~> (SourcesOf(c) # {})
  /\ [](\A c \in 1..MaxMsgs :
          /\ Cardinality(SourcesOf(c)) <= 1
          /\ (\E d \in decoding : d.chunk = c) => SourcesOf(c) = {})
  /\ [][\A d \in decoding \ decoding' :
          /\ Len(sources') = Len(sources) + 1
          /\ sources'[Len(sources')].chunk = d.chunk
          /\ sources'[Len(sources')].dur = d.dur
          /\ IF d.interrupted
               THEN sources'[Len(sources')].stopped
               ELSE Len(sources') \in sourcesRef']_vars

\* Three chunks have arrived and each has its one source; the last two are
\* still among the active sources.
C11_Witness ==
  /\ msgCount = 3
  /\ decoding = {}
  /\ \A c \in 1..3 : Cardinality(SourcesOf(c)) = 1
  /\ {2, 3} \subseteq sourcesRef

\* C12. There is never more than one open cloud session, never more than
\* one live microphone stream, and never an open cloud session or a live
\* stream while a recognition is running.
RecognitionRunning(r) == recogs[r].state \in {"starting", "listening"}

C12_AtMostOneCapture ==
  /\ Cardinality({k \in 1..Len(calls) : calls[k].wsOpen}) <= 1
  /\ Cardinality({k \in 1..Len(calls) : calls[k].streamLive}) <= 1
  /\ \A k \in 1..Len(calls), r \in 1..Len(recogs) :
       ~((calls[k].wsOpen \/ calls[k].streamLive) /\ RecognitionRunning(r))

\* C13. Once stopSession has run for the latest cloud session (its input
\* context is closed) and no session has been started since, no source is
\* scheduled, the set of active sources stays empty and nextStartTime stays 0,
\* whatever handlers were still awaiting a decode.
StoppedSinceStart == calls # <<>> /\ calls[Len(calls)].inCtxClosed

C13_NothingScheduledAfterStop ==
  /\ [](StoppedSinceStart => (sourcesRef = {} /\ nextStartTimeRef = 0))
  /\ [][(StoppedSinceStart /\ Len(calls') = Len(calls))
          => Len(sources') = Len(sources)]_vars

\* C14. Whenever the session of the latest start is listening (open,
\* resolved, its stream live and its frames captured) isListening is true,
\* and whenever isListening is false no call has a live stream whose frames
\* are being captured.
C14_IsListeningTracksSession ==
  /\ (calls # <<>> /\ CloudListening(Len(calls))) => isListening
  /\ ~isListening =>
       \A k \in 1..Len(calls) : ~(calls[k].streamLive /\ Capturing(k))

\* C15. A step in which session k completes a turn resets the current
\* transcription and prepends one record, with the source text and the
\* translation the session delivered in that turn and the session's language
\* codes, exactly when both are non-empty; otherwise the history is unchanged.
C15_TurnCompleteRecordsTurn ==
  [][\A k \in 1..Len(calls) :
       (Len(calls') = Len(calls) /\ calls'[k].turnsDone # calls[k].turnsDone) =>
         LET t == calls'[k].lastTurn
         IN  /\ currentTranscription' = EmptyTranscription
             /\ history' =
                  IF t.user # <<>> /\ t.model # <<>>
                    THEN <<NewRecord(t.user, Str(t.model), calls[k].from.code,
                                     calls[k].to.code)>> \o history
                    ELSE history]_vars

\* C16. The history never holds more than 50 records, and every step of the
\* mounted app that changes it puts one record in front of the records it
\* held, in their order, cut to the first 50.
C16_HistoryNewestFirstAtMostFifty ==
  /\ [](Len(history) <= 50)
  /\ [][(Mounted /\ history' # history) =>
          /\ Len(history') = IF Len(history) < 50 THEN Len(history) + 1 ELSE 50
          /\ \A i \in 2..Len(history') : history'[i] = history[i - 1]
          /\ history'[1].originalText.chars \in
               {currentTranscription'.user, currentTranscription.user \o T_bon,
                currentTranscription.user}]_vars

\* A restored history within two records of the limit has taken the records
\* of three turns of a cloud session and holds 50: the three in front, then
\* the records it held, in their order; it has been persisted.
C16_Witness ==
  /\ Len(history) = 50
  /\ \E k \in 1..Len(calls) : calls[k].turnsDone = 3
  /\ \A i \in 1..3 : history[i].originalText.chars = T_bon
  /\ history[4].originalText.chars = T_OUI
  /\ history[5].originalText.chars = T_No
  /\ localStorage = Stored(Stringify(history))

\* C17. A startSession call that has failed has left no live microphone
\* stream and no open session; the step in which it fails, and a tap that
\* starts nothing for want of an API key or of SpeechRecognition, leave
\* isListening, the history and the current transcription as they were, with
\* isListening false.
StartsNothing ==
  IF IsActuallyOffline THEN ~env.recognition ELSE ~env.apiKey

C17_FailedStartLeavesIdle ==
  /\ [](\A k \in 1..Len(calls) :
          calls[k].pc = "failed" => (~calls[k].streamLive /\ ~calls[k].wsOpen))
  /\ [][((\E k \in 1..Len(calls) :
             Len(calls') = Len(calls) /\ calls[k].pc # "failed"
               /\ calls'[k].pc = "failed")
          \/ (taps' # taps /\ StartsNothing))
         => (/\ ~isListening'
             /\ isListening' = isListening
             /\ history' = history
             /\ currentTranscription' = currentTranscription)]_vars

====
